---- MODULE Spec2Model ----
(***************************************************************************)
(* A model of the PDF watermarking pipeline: the driver of                 *)
(* add_watermark.py and the stage functions of pdf_operations.py, acting   *)
(* on four folders (input, tmp, output, processed).                        *)
(*                                                                         *)
(* A file name is a sequence of tokens, "a.b.pdf" being                    *)
(* <<"a", ".", "b", ".", "pdf">>, so that split('.'), string               *)
(* concatenation, glob('*.pdf') and sorted() act on it as they act on the  *)
(* Python string.  A folder is a function from the names in it to the      *)
(* contents of the files.                                                  *)
(***************************************************************************)
EXTENDS Integers, Sequences, FiniteSets, TLC

VARIABLES
    inp,              \* ./sample_input
    tmp,              \* ./tmp
    out,              \* ./sample_output
    proc,             \* ./processed
    files,            \* the driver's list `files`
    k,                \* position of the for loop in `files` (1-based)
    pc,               \* the statement the driver is at
    cur,              \* the path the previous stage returned
    remove_artifacts, \* the remove_artifacts argument of the stages
    remove_original,  \* the remove_original argument of the stages
    usr_pass,         \* the usr_pass argument of encrypt_and_add_metadata
    owner_pass,       \* the owner_pass argument of encrypt_and_add_metadata
    posix,            \* os.rename replaces an existing target (Unix) or raises (Windows)
    err,              \* the exception that ended the driver, "none" if none
    log,              \* history: one entry per stage call, in call order
    lastMerge,        \* history: the last call of merge_pdfs
    lastMove,         \* history: the last call of move_processed_pdf
    pixel             \* one channel value of a page image on its way through blur_image

vars == <<inp, tmp, out, proc, files, k, pc, cur, remove_artifacts,
          remove_original, usr_pass, owner_pass, posix, err, log,
          lastMerge, lastMove, pixel>>

----------------------------------------------------------------------------
(* Bounds of the model *)

\* the largest page count of a source document (two-digit page indices
\* need more than 10 pages)
MaxPages == 11
\* np.random.randint(0,100) is drawn from 0..MaxRnd-1 here
MaxRnd == 2
\* the noise samples of blur_image lie in -MaxNoise..MaxNoise, in steps of 1/2
MaxNoise == 3

\* the page counts tried for every source document: none, one, many
PageChoices == {0, 1, MaxPages}

----------------------------------------------------------------------------
(* Strings *)

DigitTok == <<"0", "1", "2", "3", "4", "5", "6", "7", "8", "9">>

\* f'{j}': the decimal digits of j
RECURSIVE Dec(_)
Dec(j) == IF j < 10 THEN <<DigitTok[j + 1]>>
          ELSE Dec(j \div 10) \o <<DigitTok[(j % 10) + 1]>>

\* the order of the code points the tokens start with
Rank(tok) ==
    CASE tok = "." -> 1
      [] tok = "0" -> 2  [] tok = "1" -> 3  [] tok = "2" -> 4
      [] tok = "3" -> 5  [] tok = "4" -> 6  [] tok = "5" -> 7
      [] tok = "6" -> 8  [] tok = "7" -> 9  [] tok = "8" -> 10
      [] tok = "9" -> 11
      [] tok = "_" -> 12
      [] tok = "_blurred" -> 13
      [] tok = "_exists_" -> 14
      [] tok = "_final" -> 15
      [] tok = "_im2pdf" -> 16
      [] tok = "_watermarked" -> 17
      [] tok = "a" -> 18
      [] tok = "b" -> 19
      [] tok = "pdf" -> 20
      [] tok = "png" -> 21
      [] tok = "tmp_" -> 22

\* s < t for Python strings
RECURSIVE StrLess(_, _)
StrLess(s, t) ==
    IF s = <<>> THEN t # <<>>
    ELSE IF t = <<>> THEN FALSE
    ELSE IF Head(s) = Head(t) THEN StrLess(Tail(s), Tail(t))
    ELSE Rank(Head(s)) < Rank(Head(t))

LeastFirst(S) == CHOOSE x \in S : \A y \in S \ {x} : StrLess(x, y)

\* the listing of a folder when it is not sorted (here: reversed)
GreatestFirst(S) == CHOOSE x \in S : \A y \in S \ {x} : StrLess(y, x)

RECURSIVE Unsorted(_)
Unsorted(S) == IF S = {} THEN <<>>
               ELSE <<GreatestFirst(S)>> \o Unsorted(S \ {GreatestFirst(S)})

\* sorted(...) of a set of strings
RECURSIVE Sorted(_)
Sorted(S) == IF S = {} THEN <<>>
             ELSE <<LeastFirst(S)>> \o Sorted(S \ {LeastFirst(S)})

\* s.split('.')[0]
RECURSIVE SplitDotFirst(_)
SplitDotFirst(s) ==
    IF s = <<>> \/ Head(s) = "." THEN <<>>
    ELSE <<Head(s)>> \o SplitDotFirst(Tail(s))

EndsWith(s, ext) ==
    /\ Len(s) >= 2
    /\ s[Len(s) - 1] = "."
    /\ s[Len(s)] = ext

\* glob.glob(os.path.join(folder, '*.' + ext)): the names of the folder's files
Glob(folder, ext) == {n \in DOMAIN folder : EndsWith(n, ext)}

----------------------------------------------------------------------------
(* Folders *)

NoFiles == [n \in {} |-> 0]

Write(folder, name, content) ==
    [n \in DOMAIN folder \cup {name} |-> IF n = name THEN content ELSE folder[n]]

Remove(folder, names) == [n \in DOMAIN folder \ names |-> folder[n]]

\* a path is a folder and a name
Path(dir, name) == [dir |-> dir, name |-> name]
NoPath == Path("none", <<>>)

----------------------------------------------------------------------------
(* File contents *)

\* a faulty Permissions: extraction is left allowed
PermissionsWithExtract ==
    [accessibility     |-> FALSE,
     extract           |-> TRUE,
     modify_annotation |-> FALSE,
     modify_assembly   |-> FALSE,
     modify_form       |-> FALSE,
     modify_other      |-> FALSE,
     print_lowres      |-> TRUE,
     print_highres     |-> TRUE]

\* pikepdf.Permissions(...) of encrypt_and_add_metadata
Permissions ==
    [accessibility     |-> FALSE,
     extract           |-> FALSE,
     modify_annotation |-> FALSE,
     modify_assembly   |-> FALSE,
     modify_form       |-> FALSE,
     modify_other      |-> FALSE,
     print_lowres      |-> TRUE,
     print_highres     |-> TRUE]

\* an unencrypted document allows everything
AllAllowed ==
    [accessibility     |-> TRUE,
     extract           |-> TRUE,
     modify_annotation |-> TRUE,
     modify_assembly   |-> TRUE,
     modify_form       |-> TRUE,
     modify_other      |-> TRUE,
     print_lowres      |-> TRUE,
     print_highres     |-> TRUE]

NoEnc == [encrypted |-> FALSE, user |-> "", owner |-> "", allow |-> AllAllowed]

\* the metadata encrypt_and_add_metadata sets (the two dates are left out)
Metadata ==
    [title       |-> "Lecture Notes",
     creator     |-> "Serhan Yarkan, Tapir Lab.",
     description |-> "Tapir Lab. Fall-2020 Lecture Notes",
     rights      |-> "Tapir Lab. License",
     tool        |-> "Tapir Lab.'s Automatic Watermarking Script",
     web         |-> "http://www.tapirlab.com"]

NoMeta ==
    [title |-> "", creator |-> "", description |-> "", rights |-> "",
     tool |-> "", web |-> ""]

\* A file: the source it derives from (of), what wrote it (stage), its pages.
File(of, stage, pages) ==
    [of |-> of, stage |-> stage, pages |-> pages, enc |-> NoEnc, meta |-> NoMeta]

\* page i of source `name`
SourcePage(name, i) ==
    [src |-> name, idx |-> i, blurred |-> FALSE, watermarked |-> FALSE]

\* a source document of n pages
SourceDoc(name, n) == File(name, "source", [i \in 1..n |-> SourcePage(name, i)])

\* what identifies the pages of a document, in order
PageIds(pages) == [i \in 1..Len(pages) |-> <<pages[i].src, pages[i].idx>>]

----------------------------------------------------------------------------
(* pdf_to_image, image_to_pdf, merge_pdfs *)

PngName(j) == <<"_">> \o Dec(j) \o <<".", "png">>
TmpPdfName(j) == <<"tmp_">> \o Dec(j) \o <<".", "pdf">>

\* blur_image, as far as the pipeline sees it: the page is marked blurred
blur_image(page) == [page EXCEPT !.blurred = TRUE]

\* the for loop of pdf_to_image, from page index j on
RECURSIVE SavePages(_, _, _, _, _)
SavePages(folder, doc, j, blur, pages) ==
    IF j >= Len(pages) THEN folder
    ELSE SavePages(
             Write(folder, PngName(j),
                   File(doc.of, "png",
                        <<IF blur THEN blur_image(pages[j + 1]) ELSE pages[j + 1]>>)),
             doc, j + 1, blur, pages)

\* pdf_to_image(path_to_pdf, output_folder, blur=blur): the folder afterwards
pdf_to_image(doc, folder, blur) == SavePages(folder, doc, 0, blur, doc.pages)

\* the for loop of image_to_pdf, from list index j on: set_page, draw_image, save
RECURSIVE DrawPages(_, _, _, _)
DrawPages(folder, images, j, path_to_images) ==
    IF j >= Len(path_to_images) THEN folder
    ELSE DrawPages(
             Write(folder, TmpPdfName(j),
                   File(images[path_to_images[j + 1]].of, "page",
                        images[path_to_images[j + 1]].pages)),
             images, j + 1, path_to_images)

\* a faulty image_to_pdf: the images are never removed
image_to_pdf_keeps(folder, remove) ==
    DrawPages(folder, folder, 0, Sorted(Glob(folder, "png")))

\* image_to_pdf(folder, folder, orientation, remove): the folder afterwards
image_to_pdf(folder, remove) ==
    LET path_to_images == Sorted(Glob(folder, "png"))
        drawn == DrawPages(folder, folder, 0, path_to_images)
    IN  IF remove THEN Remove(drawn, Glob(folder, "png")) ELSE drawn

\* PdfFileMerger.append for each path of input_pdfs, from list index i on
RECURSIVE Appended(_, _, _)
Appended(folder, input_pdfs, i) ==
    IF i > Len(input_pdfs) THEN <<>>
    ELSE folder[input_pdfs[i]].pages \o Appended(folder, input_pdfs, i + 1)

\* input_pdfs of merge_pdfs
merge_input_pdfs(folder) == Sorted(Glob(folder, "pdf"))

\* the pages merge_pdfs writes to path_to_output_pdf
merge_pdfs_pages(folder) == Appended(folder, merge_input_pdfs(folder), 1)

\* a faulty merge_pdfs: the single-page PDFs are never removed
merge_pdfs_keeps(folder, remove) == folder

\* the folder after merge_pdfs(folder, path_to_output_pdf, remove)
merge_pdfs_folder(folder, remove) ==
    IF remove THEN Remove(folder, Glob(folder, "pdf")) ELSE folder

----------------------------------------------------------------------------
(* The stages *)

\* the file at a path
ReadFile(path) == IF path.dir = "input" THEN inp[path.name] ELSE out[path.name]

\* The tmp folder after the first `upto` calls of
\* pdf_to_image, image_to_pdf, merge_pdfs (the body the two
\* rasterize-recompose stages share).
Recomposed(doc, folder, blur, remove, upto) ==
    LET imaged == pdf_to_image(doc, folder, blur)
        drawn  == image_to_pdf(imaged, remove)
    IN  CASE upto = 0 -> folder
          [] upto = 1 -> imaged
          [] upto = 2 -> drawn
          [] OTHER    -> merge_pdfs_folder(drawn, remove)

\* the single-page PDFs merge_pdfs finds in that body
ToMerge(doc, folder, blur, remove) ==
    image_to_pdf(pdf_to_image(doc, folder, blur), remove)

\* file_name + suffix + '.pdf', file_name being the name up to its first dot
OutputName(input_name, suffix) == SplitDotFirst(input_name) \o <<suffix, ".", "pdf">>

\* page.mergePage(watermark_page)
mergePage(page) == [page EXCEPT !.watermarked = TRUE]

\* the pages add_watermark writes: one per page of the reader
WatermarkedPages(pages) == [i \in 1..Len(pages) |-> mergePage(pages[i])]

\* what pdf.save(output_pdf, encryption=...) writes
Sealed(doc, user, owner) ==
    [doc EXCEPT !.stage = "final",
                !.enc = [encrypted |-> TRUE, user |-> user, owner |-> owner,
                         allow |-> Permissions],
                !.meta = Metadata]

\* an entry of the history of stage calls
Entry(stage, read, wrote, pagesIn, pagesOut, clean, ok) ==
    [doc    |-> k,
     stage  |-> stage,
     read   |-> read,
     wrote  |-> wrote,
     nin    |-> Len(pagesIn),
     nout   |-> Len(pagesOut),
     order  |-> PageIds(pagesIn) = PageIds(pagesOut),
     clean  |-> clean,
     ok     |-> ok]

NoMerge == [called |-> FALSE, inputs |-> 0, wrote |-> FALSE, raised |-> FALSE]

MergeCall(doc, folder, blur, upto) ==
    IF upto < 2 THEN lastMerge
    ELSE [called |-> TRUE,
          inputs |-> Len(merge_input_pdfs(ToMerge(doc, folder, blur, remove_artifacts))),
          wrote  |-> upto = 3,
          raised |-> upto = 2]

\* the driver after a stage raised
Raised(e) ==
    /\ pc' = "failed"
    /\ err' = e
    /\ cur' = cur

\* the PDFs the driver can be run on
SourceNames ==
    {<<"a", ".", "pdf">>, <<"b", ".", "pdf">>, <<"a", ".", "b", ".", "pdf">>}

\* what earlier runs may have left in the processed folder
Archived(i) == File(<<"archived", DigitTok[i + 1]>>, "source", <<>>)

PriorArchives ==
    {NoFiles,
     [n \in {<<"a", ".", "pdf">>, <<"a", "_exists_", "0", ".", "pdf">>} |->
         IF n = <<"a", ".", "pdf">> THEN Archived(0) ELSE Archived(1)]}

Passwords == {<<"", "your_pass">>, <<"user", "owner">>}

\* no channel value is followed through blur_image
NoPixel ==
    [at |-> "none", v |-> 0, halves |-> 0, wraps |-> FALSE, gauss |-> 0, img_gauss |-> 0]

NoMove ==
    [called |-> FALSE, existed |-> FALSE, taken |-> FALSE, raised |-> FALSE,
     source |-> <<>>, target |-> <<>>, before |-> NoFiles]

Init ==
    /\ \E S \in SUBSET SourceNames : \E n \in [S -> PageChoices] :
           inp = [name \in S |-> SourceDoc(name, n[name])]
    /\ tmp = NoFiles
    /\ out = NoFiles
    /\ proc \in PriorArchives
    /\ files = <<>>
    /\ k = 0
    /\ pc = "start"
    /\ cur = NoPath
    /\ remove_artifacts \in BOOLEAN
    /\ remove_original \in BOOLEAN
    /\ \E pw \in Passwords : usr_pass = pw[1] /\ owner_pass = pw[2]
    /\ posix \in BOOLEAN
    /\ err = "none"
    /\ log = <<>>
    /\ lastMerge = NoMerge
    /\ lastMove = NoMove
    /\ pixel = NoPixel

\* what no step of the driver changes
config == <<remove_artifacts, remove_original, usr_pass, owner_pass, posix, pixel>>

\* a faulty driver: glob's listing is not sorted
InputFilesUnsorted == Unsorted(Glob(inp, "pdf"))

\* sorted(glob.glob(os.path.join(input_folder, '*.pdf')))
InputFiles == Sorted(Glob(inp, "pdf"))

\* files = sorted(glob.glob(...)), and the for loop is entered
Start ==
    /\ pc = "start"
    /\ files' = InputFiles
    /\ k' = 1
    /\ pc' = IF InputFiles = <<>> THEN "done" ELSE "blur"
    /\ UNCHANGED <<inp, tmp, out, proc, cur, config, err, log, lastMerge, lastMove>>

\* blurred_pdf = po.blur_pages_of_pdf(input_pdf, ..., remove_artifacts)
\* upto < 3: the call of that number + 1 in its body raised
BlurPagesOfPdf ==
    /\ pc = "blur"
    /\ \E upto \in 0..3 :
        LET input_pdf  == Path("input", files[k])
            doc        == ReadFile(input_pdf)
            output_pdf == OutputName(input_pdf.name, "_blurred")
            pages      == merge_pdfs_pages(ToMerge(doc, tmp, TRUE, remove_artifacts))
        IN  /\ tmp' = Recomposed(doc, tmp, TRUE, remove_artifacts, upto)
            /\ lastMerge' = MergeCall(doc, tmp, TRUE, upto)
            /\ IF upto = 3
               THEN /\ out' = Write(out, output_pdf, File(doc.of, "blurred", pages))
                    /\ cur' = Path("output", output_pdf)
                    /\ pc' = "watermark"
                    /\ err' = err
                    /\ log' = Append(log, Entry("blur", input_pdf, Path("output", output_pdf),
                                                doc.pages, pages, tmp = NoFiles, TRUE))
               ELSE /\ out' = out
                    /\ Raised("IOError")
                    /\ log' = Append(log, Entry("blur", input_pdf, NoPath,
                                                doc.pages, <<>>, tmp = NoFiles, FALSE))
    /\ UNCHANGED <<inp, proc, files, k, config, lastMove>>

\* if remove_original: os.remove(input_pdf)
RemoveOriginal(folder, name, remove) ==
    IF remove THEN Remove(folder, {name}) ELSE folder

\* blurred_watermarked_pdf = po.add_watermark(blurred_pdf, watermark, ..., remove_original)
AddWatermark ==
    /\ pc = "watermark"
    /\ \E upto \in 0..1 :
        LET input_pdf  == cur
            doc        == ReadFile(input_pdf)
            output_pdf == OutputName(input_pdf.name, "_watermarked")
            pages      == WatermarkedPages(doc.pages)
        IN  IF upto = 1
            THEN /\ out' = RemoveOriginal(
                               Write(out, output_pdf, File(doc.of, "watermarked", pages)),
                               input_pdf.name, remove_original)
                 /\ cur' = Path("output", output_pdf)
                 /\ pc' = "im2pdf"
                 /\ err' = err
                 /\ log' = Append(log, Entry("watermark", input_pdf, Path("output", output_pdf),
                                             doc.pages, pages, tmp = NoFiles, TRUE))
            ELSE /\ out' = out
                 /\ Raised("IOError")
                 /\ log' = Append(log, Entry("watermark", input_pdf, NoPath,
                                             doc.pages, <<>>, tmp = NoFiles, FALSE))
    /\ UNCHANGED <<inp, tmp, proc, files, k, config, lastMerge, lastMove>>

\* blurred_watermarked_img_pdf = po.pdf_to_image_to_pdf(blurred_watermarked_pdf, ...)
PdfToImageToPdf ==
    /\ pc = "im2pdf"
    /\ \E upto \in 0..3 :
        LET input_pdf  == cur
            doc        == ReadFile(input_pdf)
            output_pdf == OutputName(input_pdf.name, "_im2pdf")
            pages      == merge_pdfs_pages(ToMerge(doc, tmp, FALSE, remove_artifacts))
        IN  /\ tmp' = Recomposed(doc, tmp, FALSE, remove_artifacts, upto)
            /\ lastMerge' = MergeCall(doc, tmp, FALSE, upto)
            /\ IF upto = 3
               THEN /\ out' = RemoveOriginal(
                                  Write(out, output_pdf, File(doc.of, "im2pdf", pages)),
                                  input_pdf.name, remove_original)
                    /\ cur' = Path("output", output_pdf)
                    /\ pc' = "seal"
                    /\ err' = err
                    /\ log' = Append(log, Entry("im2pdf", input_pdf, Path("output", output_pdf),
                                                doc.pages, pages, tmp = NoFiles, TRUE))
               ELSE /\ out' = out
                    /\ Raised("IOError")
                    /\ log' = Append(log, Entry("im2pdf", input_pdf, NoPath,
                                                doc.pages, <<>>, tmp = NoFiles, FALSE))
    /\ UNCHANGED <<inp, proc, files, k, config, lastMove>>

\* po.encrypt_and_add_metadata(blurred_watermarked_img_pdf, ..., remove_original)
EncryptAndAddMetadata ==
    /\ pc = "seal"
    /\ \E upto \in 0..1 :
        LET input_pdf  == cur
            doc        == ReadFile(input_pdf)
            output_pdf == OutputName(input_pdf.name, "_final")
        IN  IF upto = 1
            THEN /\ out' = RemoveOriginal(
                               Write(out, output_pdf, Sealed(doc, usr_pass, owner_pass)),
                               input_pdf.name, remove_original)
                 /\ cur' = cur
                 /\ pc' = "archive"
                 /\ err' = err
                 /\ log' = Append(log, Entry("seal", input_pdf, Path("output", output_pdf),
                                             doc.pages, doc.pages, tmp = NoFiles, TRUE))
            ELSE /\ out' = out
                 /\ Raised("IOError")
                 /\ log' = Append(log, Entry("seal", input_pdf, NoPath,
                                             doc.pages, <<>>, tmp = NoFiles, FALSE))
    /\ UNCHANGED <<inp, tmp, proc, files, k, config, lastMerge, lastMove>>

\* os.rename(src, dst) raises when dst exists, except on Unix, where it
\* replaces dst silently
RenameRaises(folder, dst) == dst \in DOMAIN folder /\ ~posix

\* the folder of src after os.rename(src, dst)
RenamedFrom(folder, src) == Remove(folder, {src})

\* the folder of dst after os.rename(src, dst)
RenamedTo(folder, dst, content) == Write(folder, dst, content)

\* po.move_processed_pdf(input_pdf, processed_folder), the target being
\* `target`; `fails`: os.rename raises for a reason of the file system
Move(input_pdf, target, existed, fails) ==
    LET raises == fails \/ RenameRaises(proc, target)
    IN  /\ lastMove' = [called  |-> TRUE,
                        existed |-> existed,
                        taken   |-> target \in DOMAIN proc,
                        raised  |-> raises,
                        source  |-> input_pdf.name,
                        target  |-> target,
                        before  |-> proc]
        /\ log' = Append(log, Entry("archive", input_pdf,
                                    IF raises THEN NoPath ELSE Path("processed", target),
                                    inp[input_pdf.name].pages, inp[input_pdf.name].pages,
                                    tmp = NoFiles, ~raises))
        /\ IF raises
           THEN /\ Raised(IF fails THEN "OSError" ELSE "FileExistsError")
                /\ UNCHANGED <<inp, proc, k>>
           ELSE /\ inp' = RenamedFrom(inp, input_pdf.name)
                /\ proc' = RenamedTo(proc, target, inp[input_pdf.name])
                /\ k' = k + 1
                /\ pc' = IF k + 1 > Len(files) THEN "done" ELSE "blur"
                /\ err' = err
                /\ cur' = cur

\* postfix = "_exists_" + f'{rnd}' + ".pdf"
Postfix(rnd) == <<"_exists_">> \o Dec(rnd) \o <<".", "pdf">>

MoveProcessedPdf ==
    /\ pc = "archive"
    /\ \E fails \in BOOLEAN :
        LET input_pdf == Path("input", files[k])
            file_name == SplitDotFirst(input_pdf.name)
            new_path_to_input_pdf == file_name \o <<".", "pdf">>
        IN  IF new_path_to_input_pdf \in DOMAIN proc
            THEN \E rnd \in 0..(MaxRnd - 1) :
                     Move(input_pdf, file_name \o Postfix(rnd), TRUE, fails)
            ELSE Move(input_pdf, new_path_to_input_pdf, FALSE, fails)
    /\ UNCHANGED <<tmp, out, files, config, lastMerge>>

Next ==
    \/ Start
    \/ BlurPagesOfPdf
    \/ AddWatermark
    \/ PdfToImageToPdf
    \/ EncryptAndAddMetadata
    \/ MoveProcessedPdf

Spec == Init /\ [][Next]_vars

----------------------------------------------------------------------------
(* What the claims speak of *)

Entries == {log[i] : i \in 1..Len(log)}

\* the folders as one set of (folder, name, file)
AllFiles ==
    {<<"input", n, inp[n]>> : n \in DOMAIN inp}
    \cup {<<"tmp", n, tmp[n]>> : n \in DOMAIN tmp}
    \cup {<<"output", n, out[n]>> : n \in DOMAIN out}
    \cup {<<"processed", n, proc[n]>> : n \in DOMAIN proc}

\* where the source document `name` is
Copies(name) == {f \in AllFiles : f[3].stage = "source" /\ f[3].of = name}

\* the filename minus its .pdf extension
WithoutExtension(name) == SubSeq(name, 1, Len(name) - 2)

----------------------------------------------------------------------------
(* C1 *)

\* C1: when move_processed_pdf is called with <processed>/<basename>.pdf
\* present and returns, every file the processed folder held before the call
\* is still there unchanged, and the archived source is there too, under
\* a name no earlier file had.
C1_ArchiveOverwritesNothing ==
    (lastMove.called /\ lastMove.existed /\ ~lastMove.raised) =>
        /\ \A n \in DOMAIN lastMove.before :
               n \in DOMAIN proc /\ proc[n] = lastMove.before[n]
        /\ lastMove.target \notin DOMAIN lastMove.before
        /\ lastMove.target \in DOMAIN proc
        /\ proc[lastMove.target].of = lastMove.source

----------------------------------------------------------------------------
(* C2 *)

\* C2: every source document of the batch exists exactly once: in the input
\* folder while it is not archived, in the processed folder once it is.
C2_SourceExistsOnce ==
    pc # "start" =>
        \A i \in 1..Len(files) :
            /\ Cardinality(Copies(files[i])) = 1
            /\ \A f \in Copies(files[i]) :
                   f[1] = IF i < k THEN "processed" ELSE "input"

\* C2, the part about the stages: while a document is being processed (or
\* after one of its stages raised), its source is in the input folder, once.
C2_StagesKeepSource ==
    pc \in {"blur", "watermark", "im2pdf", "seal", "archive", "failed"} =>
        /\ Cardinality(Copies(files[k])) = 1
        /\ \A f \in Copies(files[k]) : f[1] = "input" /\ f[2] = files[k]

----------------------------------------------------------------------------
(* C3 *)

\* C3: a rasterize -> recompose -> merge stage that starts with the tmp
\* folder empty writes the pages of its input in the order of its input.
C3_MergedOrderIsSourceOrder ==
    \A e \in Entries :
        (e.ok /\ e.stage \in {"blur", "im2pdf"} /\ e.clean) => e.order

\* the same for documents of at most 10 pages
C3_OrderUpToTenPages ==
    \A e \in Entries :
        (e.ok /\ e.stage \in {"blur", "im2pdf"} /\ e.clean /\ e.nin <= 10) => e.order

----------------------------------------------------------------------------
(* C4 *)

PageCountKept ==
    \A e \in Entries :
        (e.ok /\ e.stage \in {"blur", "watermark", "im2pdf"}) => e.nout = e.nin

\* C4 as claimed: every stage call that returns wrote as many pages as it
\* read, whatever remove_artifacts is.
C4_PageCountKeptAlways == PageCountKept

\* C4 as amended: with remove_artifacts set (and the tmp folder empty when
\* the driver starts), every stage call that returns wrote as many pages as
\* it read.
C4_PageCountKeptWhenCleaning == remove_artifacts => PageCountKept

\* C4's case: a later, shorter document went through its second
\* rasterize-recompose stage after a longer one, with remove_artifacts set.
C4_Witness ==
    /\ remove_artifacts
    /\ \E e \in Entries :
           /\ e.ok /\ e.stage = "im2pdf" /\ e.doc = 2 /\ e.nin = 1
           /\ log[1].nin = MaxPages

----------------------------------------------------------------------------
(* C5 *)

StageSuffix(stage) ==
    CASE stage = "blur"      -> <<"_blurred">>
      [] stage = "watermark" -> <<"_blurred", "_watermarked">>
      [] stage = "im2pdf"    -> <<"_blurred", "_watermarked", "_im2pdf">>
      [] stage = "seal"      -> <<"_blurred", "_watermarked", "_im2pdf", "_final">>

Writes == {e \in Entries : e.ok /\ e.stage # "archive"}

\* C5: each stage of the source <name>.pdf writes <name> + the stage's
\* suffixes + .pdf, <name> being the filename minus .pdf, and two sources
\* never write the same path.
C5_OutputNamesKeepName ==
    /\ \A e \in Writes :
           e.wrote = Path("output", WithoutExtension(files[e.doc])
                                    \o StageSuffix(e.stage) \o <<".", "pdf">>)
    /\ \A e1, e2 \in Writes : e1.doc # e2.doc => e1.wrote # e2.wrote

----------------------------------------------------------------------------
(* C6 *)

\* the files of the output folder that derive from source `name`
Artifacts(name) == {n \in DOMAIN out : out[n].of = name}

----------------------------------------------------------------------------
(* C7 *)

\* C7: a call of merge_pdfs that finds no *.pdf raises and writes nothing.
C7_EmptyMergeRaises ==
    (lastMerge.called /\ lastMerge.inputs = 0) =>
        (lastMerge.raised /\ ~lastMerge.wrote)

----------------------------------------------------------------------------
(* C8 *)

\* C8: a call of move_processed_pdf that finds both <basename>.pdf and
\* <basename>_exists_<r>.pdf for the r it drew raises, and the source is
\* still in the input folder.
C8_SuffixCollisionRaises ==
    (lastMove.called /\ lastMove.existed /\ lastMove.taken) =>
        /\ lastMove.raised
        /\ pc = "failed"
        /\ lastMove.source \in DOMAIN inp

----------------------------------------------------------------------------
(* C9 *)

\* C9: every document encrypt_and_add_metadata wrote allows printing in low
\* and high resolution and denies extraction, annotation, assembly, form
\* filling and other modification.
C9_SealedPermissions ==
    \A n \in DOMAIN out :
        out[n].stage = "final" =>
            /\ out[n].enc.encrypted
            /\ out[n].enc.allow.print_lowres
            /\ out[n].enc.allow.print_highres
            /\ ~out[n].enc.allow.extract
            /\ ~out[n].enc.allow.modify_annotation
            /\ ~out[n].enc.allow.modify_assembly
            /\ ~out[n].enc.allow.modify_form
            /\ ~out[n].enc.allow.modify_other

\* C9's case: two documents of different sources and page counts are sealed,
\* with a user password set.
C9_Witness ==
    /\ usr_pass # ""
    /\ \E n1, n2 \in DOMAIN out :
           /\ out[n1].stage = "final" /\ out[n2].stage = "final"
           /\ Len(out[n1].pages) = 0
           /\ Len(out[n2].pages) = MaxPages

----------------------------------------------------------------------------
(* C10 *)

StageOrder == <<"blur", "watermark", "im2pdf", "seal", "archive">>

\* C10: the driver's list is sorted and holds, from the loop's position on,
\* the documents still in the input folder; the stage calls are those of
\* document 1, then document 2, ..., each document's in the order blur,
\* watermark, im2pdf, seal, archive; the first and the last stage read the
\* source and the others the path the call before returned; only the last
\* call may have raised, and then the driver has stopped with that document
\* not archived.
C10_DriverOrder ==
    pc # "start" =>
        /\ \A i, j \in 1..Len(files) : i < j => StrLess(files[i], files[j])
        /\ {files[i] : i \in k..Len(files)} = DOMAIN inp
        /\ \A i \in 1..Len(log) :
               /\ log[i].doc = ((i - 1) \div 5) + 1
               /\ log[i].stage = StageOrder[((i - 1) % 5) + 1]
               /\ log[i].stage \in {"blur", "archive"} =>
                      log[i].read = Path("input", files[log[i].doc])
               /\ log[i].stage \in {"watermark", "im2pdf", "seal"} =>
                      log[i].read = log[i - 1].wrote
               /\ i < Len(log) => log[i].ok
        /\ k = Cardinality({e \in Entries : e.stage = "archive" /\ e.ok}) + 1
        /\ pc = "failed" <=> (log # <<>> /\ ~log[Len(log)].ok)
        /\ pc = "failed" => files[log[Len(log)].doc] \in DOMAIN inp
        /\ pc = "done" <=> k > Len(files)

\* C10's case: three documents were processed, each through all five stages.
C10_Witness ==
    /\ pc = "done"
    /\ Len(files) = 3
    /\ Len(log) = 15

----------------------------------------------------------------------------
(* blur_image: the noise added to one 8-bit channel value *)

\* A noise sample of np.random.normal is a float; it is held here as a number
\* of halves, so that -3 is -1.5.

\* the float cast to an integer type: the fraction is dropped (towards zero)
Truncated(halves) == IF halves >= 0 THEN halves \div 2 ELSE -((-halves) \div 2)

\* gauss.astype('uint8') of one sample.  The cast of a negative float to an
\* unsigned type is undefined in C: the build either wraps it modulo 256
\* (x86) or saturates it to 0 (ARM).
AsTypeUint8(halves, wraps) ==
    LET t == Truncated(halves)
    IN  IF t >= 0 THEN t % 256
        ELSE IF wraps THEN t % 256 ELSE 0

\* cv2.add of two uint8 values: the sum, saturated to 255
cv2_add(a, b) == IF a + b > 255 THEN 255 ELSE a + b

\* a channel value, a noise sample and a build are chosen
InitBlur ==
    /\ inp = NoFiles /\ tmp = NoFiles /\ out = NoFiles /\ proc = NoFiles
    /\ files = <<>> /\ k = 0 /\ pc = "blur_image" /\ cur = NoPath
    /\ remove_artifacts = TRUE /\ remove_original = TRUE
    /\ usr_pass = "" /\ owner_pass = "your_pass"
    /\ posix = TRUE /\ err = "none" /\ log = <<>>
    /\ lastMerge = NoMerge /\ lastMove = NoMove
    /\ \E v \in 0..255 : \E h \in (-2 * MaxNoise)..(2 * MaxNoise) : \E w \in BOOLEAN :
           pixel = [at |-> "noise", v |-> v, halves |-> h, wraps |-> w,
                    gauss |-> 0, img_gauss |-> 0]

pipeline == <<inp, tmp, out, proc, files, k, pc, cur, remove_artifacts,
              remove_original, usr_pass, owner_pass, posix, err, log,
              lastMerge, lastMove>>

\* gauss = gauss.reshape(...).astype('uint8')
CastNoise ==
    /\ pixel.at = "noise"
    /\ pixel' = [pixel EXCEPT !.at = "cast",
                              !.gauss = AsTypeUint8(pixel.halves, pixel.wraps)]
    /\ UNCHANGED pipeline

\* img_gauss = cv2.add(img, gauss)
AddNoise ==
    /\ pixel.at = "cast"
    /\ pixel' = [pixel EXCEPT !.at = "added",
                              !.img_gauss = cv2_add(pixel.v, pixel.gauss)]
    /\ UNCHANGED pipeline

NextBlur == CastNoise \/ AddNoise

SpecBlur == InitBlur /\ [][NextBlur]_vars

----------------------------------------------------------------------------
(* C11 *)

Clamp(x) == IF x < 0 THEN 0 ELSE IF x > 255 THEN 255 ELSE x

\* C11: for every channel value v and every whole noise sample g, negative
\* or positive, the value after the noise is added is clamp(v + g, 0, 255).
C11_NoiseAddSaturates ==
    (pixel.at = "added" /\ pixel.halves % 2 = 0) =>
        pixel.img_gauss = Clamp(pixel.v + pixel.halves \div 2)

\* the same for the samples that are not negative: there the addition
\* does saturate
C11_NonNegativeNoiseSaturates ==
    (pixel.at = "added" /\ pixel.halves % 2 = 0 /\ pixel.halves >= 0) =>
        pixel.img_gauss = Clamp(pixel.v + pixel.halves \div 2)

====
